---- MODULE Spec2Model ----
(***************************************************************************)
(* Model of the Bria API client functions of services/:                    *)
(*   erase_foreground, generate_hd_image, lifestyle_shot_by_text.          *)
(* Each call validates its inputs, builds headers and a JSON body, issues  *)
(* HTTP POSTs against a server whose answers are inputs of the model, and  *)
(* returns the decoded body or raises.                                     *)
(*                                                                         *)
(* Conventions.  Optional[T] is a sequence of length <= 1: None is <<>>,   *)
(* a present value x is <<x>>.  A str is a sequence of one-character       *)
(* strings; literal pieces of an f-string are kept as one token each.      *)
(* bytes are sequences of 0..255.  A float that is an exact binary         *)
(* fraction is the pair <<numerator, denominator>>.                        *)
(***************************************************************************)
EXTENDS Integers, Sequences, FiniteSets, TLC

\* ---------------------------------------------------------------- bounds
MaxKeyLen == 9

\* ------------------------------------------------------- module constants
DEFAULT_TIMEOUT == 15
RETRY_COUNT == 2
RETRY_BACKOFF == <<3, 2>>

\* ------------------------------------------------------------- Optional
None == <<>>
Some(x) == <<x>>

Min(a, b) == IF a <= b THEN a ELSE b
Max(a, b) == IF a >= b THEN a ELSE b

\* ------------------------------------------------------------------ str
\* Python truthiness of an Optional[str] / Optional[bytes]: None and the
\* empty value are falsy.
Truthy(o) == o # None /\ Len(o[1]) > 0

\* s[:n]
SliceTo(s, n) == SubSeq(s, 1, Min(n, Len(s)))
\* s[-n:]
SliceLast(s, n) == SubSeq(s, Max(1, Len(s) - n + 1), Len(s))

IsSpace(c) == c \in {" ", "\n", "\t"}

RECURSIVE lstrip(_)
lstrip(s) == IF Len(s) > 0 /\ IsSpace(s[1]) THEN lstrip(Tail(s)) ELSE s

RECURSIVE rstrip(_)
rstrip(s) ==
    IF Len(s) > 0 /\ IsSpace(s[Len(s)]) THEN rstrip(SubSeq(s, 1, Len(s) - 1)) ELSE s

\* str.strip()
strip(s) == rstrip(lstrip(s))

\* sub in s, for a non-empty sub
Contains(s, sub) ==
    /\ Len(sub) > 0
    /\ \E i \in 1..(Len(s) - Len(sub) + 1) : SubSeq(s, i, i + Len(sub) - 1) = sub

DigitChars == <<"0", "1", "2", "3", "4", "5", "6", "7", "8", "9">>

\* str(n) for n >= 0
RECURSIVE IntStr(_)
IntStr(n) ==
    IF n < 10 THEN <<DigitChars[n + 1]>>
    ELSE IntStr(n \div 10) \o <<DigitChars[(n % 10) + 1]>>

\* ---------------------------------------------------------------- float
RECURSIVE RatPow(_, _)
RatPow(r, k) ==
    IF k = 0 THEN <<1, 1>>
    ELSE LET p == RatPow(r, k - 1) IN <<p[1] * r[1], p[2] * r[2]>>

RatMul(a, b) == <<a[1] * b[1], a[2] * b[2]>>
RatEq(a, b) == a[1] * b[2] = b[1] * a[2]
RatLess(a, b) == a[1] * b[2] < b[1] * a[2]

\* f"{x:.1f}": one decimal, round-half-even on the exact value
Fmt1f(r) ==
    LET t == r[1] * 10
        q == t \div r[2]
        rem == t % r[2]
        up == 2 * rem > r[2] \/ (2 * rem = r[2] /\ q % 2 = 1)
        tenths == IF up THEN q + 1 ELSE q
    IN IntStr(tenths \div 10) \o <<".">> \o IntStr(tenths % 10)

\* --------------------------------------------------------------- base64
\* ASCII code of the base64 digit with index i (0..63)
B64Code(i) ==
    IF i < 26 THEN 65 + i
    ELSE IF i < 52 THEN 97 + (i - 26)
    ELSE IF i < 62 THEN 48 + (i - 52)
    ELSE IF i = 62 THEN 43 ELSE 47

B64Pad == 61

\* base64.b64encode(b): bytes -> bytes
RECURSIVE b64encode(_)
b64encode(b) ==
    IF Len(b) = 0 THEN <<>>
    ELSE IF Len(b) = 1 THEN
        <<B64Code(b[1] \div 4), B64Code((b[1] % 4) * 16), B64Pad, B64Pad>>
    ELSE IF Len(b) = 2 THEN
        <<B64Code(b[1] \div 4), B64Code((b[1] % 4) * 16 + (b[2] \div 16)),
          B64Code((b[2] % 16) * 4), B64Pad>>
    ELSE
        <<B64Code(b[1] \div 4), B64Code((b[1] % 4) * 16 + (b[2] \div 16)),
          B64Code((b[2] % 16) * 4 + (b[3] \div 64)), B64Code(b[3] % 64)>>
        \o b64encode(SubSeq(b, 4, Len(b)))

UpperChars == <<"A", "B", "C", "D", "E", "F", "G", "H", "I", "J", "K", "L", "M",
                "N", "O", "P", "Q", "R", "S", "T", "U", "V", "W", "X", "Y", "Z">>
LowerChars == <<"a", "b", "c", "d", "e", "f", "g", "h", "i", "j", "k", "l", "m",
                "n", "o", "p", "q", "r", "s", "t", "u", "v", "w", "x", "y", "z">>

\* chr(c) for the ASCII codes base64 produces
AsciiChar(c) ==
    IF c >= 65 /\ c <= 90 THEN UpperChars[c - 64]
    ELSE IF c >= 97 /\ c <= 122 THEN LowerChars[c - 96]
    ELSE IF c >= 48 /\ c <= 57 THEN DigitChars[c - 47]
    ELSE IF c = 43 THEN "+"
    ELSE IF c = 47 THEN "/"
    ELSE IF c = 61 THEN "=" ELSE "?"

\* bytes.decode("utf-8") on ASCII bytes
decode_utf8(b) == [i \in 1..Len(b) |-> AsciiChar(b[i])]

\* ------------------------------------------------------ the HTTP library
\* What the server (or the network) answers to one POST.
Resp(status, text) == [net |-> "ok", status |-> status, text |-> text]
NetFail(kind) == [net |-> kind, status |-> 0, text |-> <<>>]

GoodBody == <<"{\"result_url\": \"r\"}">>
BadBody == <<"<html>oops</html>">>

\* The answers the model feeds a POST: 2xx and 3xx with and without a JSON
\* body, a client error, a throttle, a server error, two transport failures.
Responses ==
    {Resp(200, GoodBody), Resp(200, BadBody), Resp(302, GoodBody), Resp(302, BadBody),
     Resp(404, BadBody), Resp(429, BadBody), Resp(500, BadBody),
     NetFail("ConnectionError"), NetFail("Timeout")}

\* Exceptions: the class, the classes isinstance() accepts, str(exc), and
\* the response attached to it (None when there is none).
HTTPError(resp, u) ==
    [cls |-> "HTTPError",
     bases |-> {"HTTPError", "RequestException", "OSError", "Exception"},
     text |-> IntStr(resp.status)
              \o <<IF resp.status < 500 THEN " Client Error for url: "
                   ELSE " Server Error for url: ">> \o u,
     response |-> Some(resp)]

TransportError(kind) ==
    [cls |-> kind,
     bases |-> {kind, "RequestException", "OSError", "Exception"},
     text |-> <<kind>>,
     response |-> None]

\* The error response.json() raises.  requests.exceptions.JSONDecodeError
\* derives from both InvalidJSONError (a RequestException) and
\* json.JSONDecodeError (a ValueError); before requests 2.27 the json
\* module's own error, a ValueError only, came through.
JSONDecodeError(isRequestException) ==
    [cls |-> "JSONDecodeError",
     bases |-> IF isRequestException
               THEN {"JSONDecodeError", "InvalidJSONError", "RequestException",
                     "OSError", "ValueError", "Exception"}
               ELSE {"JSONDecodeError", "ValueError", "Exception"},
     text |-> <<"Expecting value: line 1 column 1 (char 0)">>,
     response |-> None]

\* A built-in error raised with a message.
PyError(cls, text) ==
    [cls |-> cls, bases |-> {cls, "Exception"}, text |-> text, response |-> None]

\* Response.raise_for_status(): the HTTPError to raise, or None
raise_for_status(resp, u) ==
    IF resp.status >= 400 /\ resp.status < 600 THEN Some(HTTPError(resp, u)) ELSE None

\* Response.json(): the decoded document, or None when the text is no JSON
json_loads(text) == IF text = GoodBody THEN Some([result_url |-> "r"]) ELSE None

\* The first except clause, in source order, that catches exc
FirstMatch(exc, clauses) ==
    IF \E i \in 1..Len(clauses) : clauses[i] \in exc.bases
    THEN clauses[CHOOSE i \in 1..Len(clauses) :
                    /\ clauses[i] \in exc.bases
                    /\ \A j \in 1..(i - 1) : clauses[j] \notin exc.bases]
    ELSE "uncaught"

\* The body of a try block "post; raise_for_status; return json()" on one
\* answer: what it returns or raises.
PostAndDecode(resp, u, jsonErrIsReqExc) ==
    IF resp.net # "ok" THEN [kind |-> "raise", exc |-> TransportError(resp.net)]
    ELSE IF raise_for_status(resp, u) # None
    THEN [kind |-> "raise", exc |-> raise_for_status(resp, u)[1]]
    ELSE IF json_loads(resp.text) = None
    THEN [kind |-> "raise", exc |-> JSONDecodeError(jsonErrIsReqExc)]
    ELSE [kind |-> "return", value |-> json_loads(resp.text)[1]]

\* --------------------------------------------------------------- inputs
KeyChars == <<"a", "b", "c", "d", "1", "2", "3", "4", "e", "f", "g", "h">>
KeyOfLen(n) == [i \in 1..n |-> KeyChars[((i - 1) % Len(KeyChars)) + 1]]

Keys ==
    {None}
    \cup {Some(KeyOfLen(n)) : n \in 0..MaxKeyLen}
    \cup {Some(<<" ">> \o KeyOfLen(MaxKeyLen) \o <<"\n">>)}

ImageDatas == {None, Some(<<>>), Some(<<137, 80>>), Some(<<137, 80, 78, 71>>)}
ImageUrls == {None, Some(<<>>), Some(<<"https://cdn.example/p.png">>)}

\* ---------------------------------------------------------------- state
VARIABLES
    jsonErrIsReqExc,  \* the installed requests raises its own JSONDecodeError
    pc,               \* "idle", "loop" (retry loop), "try" (single try), "done"
    fn,               \* the public function called
    args,             \* its arguments
    url, headers, data,          \* the request built
    attempt, backoff, last_exc,  \* the retry loop's locals
    wire,             \* POSTs issued and sleeps taken, in order
    answers,          \* what each POST got back
    stdout,           \* the lines printed
    outcome,          \* None while running, then the return value or the error
    defaults,         \* the list objects that are lifestyle_shot_by_text's defaults
    threads           \* the calls that run concurrently, one per thread

vars == <<jsonErrIsReqExc, pc, fn, args, url, headers, data, attempt, backoff,
          last_exc, wire, answers, stdout, outcome, defaults, threads>>

\* The threads that call the public functions concurrently.
Threads == {"t1", "t2"}

\* shot_size = [1000, 1000], manual_placement_selection = ["upper_left"],
\* padding_values = [0, 0, 0, 0]: built once, when the def statement runs.
LifestyleDefaults ==
    [shot_size |-> <<1000, 1000>>, manual_placement_selection |-> <<"upper_left">>,
     padding_values |-> <<0, 0, 0, 0>>]

\* The locals of a call that has not entered its function yet.
Idle ==
    [pc |-> "idle", url |-> <<>>, headers |-> <<>>, data |-> <<>>,
     attempt |-> 0, backoff |-> <<1, 1>>, last_exc |-> None,
     wire |-> <<>>, answers |-> <<>>, stdout |-> <<>>, outcome |-> None]

Init ==
    /\ jsonErrIsReqExc \in BOOLEAN
    /\ pc = "idle"
    /\ fn = "none"
    /\ args = <<>>
    /\ url = <<>>
    /\ headers = <<>>
    /\ data = <<>>
    /\ attempt = 0
    /\ backoff = <<1, 1>>
    /\ last_exc = None
    /\ wire = <<>>
    /\ answers = <<>>
    /\ stdout = <<>>
    /\ outcome = None
    /\ defaults = LifestyleDefaults
    /\ threads = [t \in Threads |->
                    [at |-> "idle", fn |-> "none", args |-> <<>>, L |-> Idle, got |-> <<>>]]

Post(u, h, d, t) == [op |-> "POST", url |-> u, headers |-> h, json |-> d, timeout |-> t]
Sleep(secs) == [op |-> "sleep", secs |-> secs]

\* A finished call: the value returned, or the exception raised, with the
\* raise statement it comes from (site) and the exception being handled when
\* it was raised (Python's __context__), None outside an except clause.
Returned(v) == Some([kind |-> "return", value |-> v])
Raised(site, exc, context) ==
    Some([kind |-> "raise", site |-> site, exc |-> exc, context |-> context])

\* def _mask_key(key)
_mask_key(key) ==
    IF ~Truthy(key) THEN <<"<no-key>">>
    ELSE SliceTo(key[1], 4) \o <<"...">> \o SliceLast(key[1], 4)

\* The except clauses of the retry loops, in source order.
ExceptClauses == <<"HTTPError", "RequestException", "ValueError">>

\* getattr(http_err.response, "status_code", None)
StatusOf(exc) == IF exc.response = None THEN None ELSE Some(exc.response[1].status)
\* getattr(http_err.response, "text", "")
TextOf(exc) == IF exc.response = None THEN <<>> ELSE exc.response[1].text

\* Mutant: the 5xx range tested where the 4xx range is meant.
NonRetryable_ServerRange(status) ==
    /\ status # None
    /\ 500 <= status[1]
    /\ status[1] < 600

\* Mutant: the upper bound of the 4xx range left out.
NonRetryable_NoUpperBound(status) ==
    /\ status # None
    /\ 400 <= status[1]
    /\ status[1] # 429

\* status and 400 <= status < 500 and status != 429
NonRetryable(status) ==
    /\ status # None
    /\ status[1] # 0
    /\ 400 <= status[1]
    /\ status[1] < 500
    /\ status[1] # 429

\* Mutant: last_exc set on the first transient failure only.
KeepFirstExc(old, exc) == IF old = None THEN Some(exc) ELSE old

\* last_exc = http_err / last_exc = req_err
KeepLastExc(old, exc) == Some(exc)

\* {RETRY_COUNT + 1} in the final error
AttemptsReported == RETRY_COUNT + 1

\* Mutant: the counter stepped by two.
NextAttempt_ByTwo(n) == n + 2

\* attempt += 1
NextAttempt(n) == n + 1

\* Mutant: the exponent left out.
SleepTime_Flat(b, n) == RatMul(b, RETRY_BACKOFF)

\* Mutant: the multiplier times the attempt number, not to its power.
SleepTime_Linear(b, n) == RatMul(b, <<RETRY_BACKOFF[1] * n, RETRY_BACKOFF[2]>>)

\* sleep_time = backoff * (RETRY_BACKOFF ** attempt)
SleepTime(b, n) == RatMul(b, RatPow(RETRY_BACKOFF, n))

\* ------------------------------------------------------ erase_foreground
\* Mutant: the file is added whenever image bytes were given.
ErasePayload_FileToo(a) ==
    [content_moderation |-> a.content_moderation]
    @@ (IF Truthy(a.image_url) THEN [image_url |-> a.image_url[1]] ELSE <<>>)
    @@ (IF Truthy(a.image_data)
        THEN [file |-> decode_utf8(b64encode(a.image_data[1]))] ELSE <<>>)

\* The payload of erase_foreground
ErasePayload(a) ==
    IF Truthy(a.image_url)
    THEN [content_moderation |-> a.content_moderation, image_url |-> a.image_url[1]]
    ELSE [content_moderation |-> a.content_moderation,
          file |-> decode_utf8(b64encode(a.image_data[1]))]

\* erase_foreground(...), from entry to the retry loop: validation, headers,
\* payload, the loop's locals.
erase_foreground_entry(a) ==
    IF ~Truthy(a.api_key) THEN
        [Idle EXCEPT !.pc = "done",
            !.outcome = Raised("validation",
                PyError("ValueError", <<"API key is missing">>), None)]
    ELSE IF ~(Truthy(a.image_data) \/ Truthy(a.image_url)) THEN
        [Idle EXCEPT !.pc = "done",
            !.outcome = Raised("validation",
                PyError("ValueError", <<"Either image_data or image_url must be provided">>),
                None)]
    ELSE
        [Idle EXCEPT !.pc = "loop",
            !.url = <<"https://engine.prod.bria-api.com/v1/erase_foreground">>,
            !.headers = [Accept |-> <<"application/json">>,
                         ContentType |-> <<"application/json">>,
                         api_token |-> a.api_key[1],
                         Authorization |-> <<"Bearer ">> \o a.api_key[1]],
            !.data = ErasePayload(a),
            !.attempt = 0,
            !.backoff = <<1, 1>>,
            !.last_exc = None]

\* One iteration of erase_foreground's while loop on the answer resp, and
\* the raise after the loop when the condition then fails.
erase_foreground_iteration(L, a, lib, resp) ==
    LET line == <<"[erase_foreground] Request -> ">> \o L.url
                \o <<" attempt=">> \o IntStr(L.attempt)
                \o <<" api_key=">> \o _mask_key(a.api_key)
        post == Post(L.url, L.headers, L.data, Some(DEFAULT_TIMEOUT))
        r == PostAndDecode(resp, L.url, lib)
        clause == IF r.kind = "raise" THEN FirstMatch(r.exc, ExceptClauses) ELSE "none"
        fatal4xx == clause = "HTTPError" /\ NonRetryable(StatusOf(r.exc))
        retry == (clause = "HTTPError" /\ ~fatal4xx) \/ clause = "RequestException"
        exc1 == KeepLastExc(L.last_exc, r.exc)
        n1 == NextAttempt(L.attempt)
        sleep_time == SleepTime(L.backoff, n1)
        sent == [L EXCEPT !.answers = Append(@, resp), !.wire = Append(@, post),
                          !.stdout = Append(@, line)]
    IN  IF r.kind = "return" THEN
            [sent EXCEPT !.pc = "done", !.outcome = Returned(r.value)]
        ELSE IF fatal4xx THEN
            [sent EXCEPT !.pc = "done",
                !.outcome = Raised("http4xx", PyError("Exception",
                    <<"Erase foreground failed (HTTP ">> \o IntStr(StatusOf(r.exc)[1])
                    \o <<"): ">> \o TextOf(r.exc)), Some(r.exc))]
        ELSE IF clause = "ValueError" THEN
            [sent EXCEPT !.pc = "done",
                !.outcome = Raised("nonjson", PyError("Exception",
                    <<"Non-JSON response: ">> \o r.exc.text), Some(r.exc))]
        ELSE IF ~retry THEN
            [sent EXCEPT !.pc = "done", !.outcome = Raised("uncaught", r.exc, None)]
        ELSE IF n1 <= RETRY_COUNT THEN
            [sent EXCEPT !.last_exc = exc1, !.attempt = n1,
                !.stdout = Append(@,
                    <<"[erase_foreground] transient error: ">> \o exc1[1].text
                    \o <<". Retrying in ">> \o Fmt1f(sleep_time) \o <<"s...">>),
                !.wire = Append(@, Sleep(sleep_time))]
        ELSE
            [sent EXCEPT !.last_exc = exc1, !.attempt = n1, !.pc = "done",
                !.outcome = Raised("exhausted", PyError("Exception",
                    <<"Erase foreground failed after ">> \o IntStr(AttemptsReported)
                    \o <<" attempts: ">> \o exc1[1].text), None)]

\* ----------------------------------------------------- generate_hd_image
\* max(lo, min(x, hi))
Clamp(lo, x, hi) == Max(lo, Min(x, hi))

\* max(1.0, min(float(x), 10.0)) on exact fractions
ClampRat(lo, x, hi) ==
    LET m == IF RatLess(hi, x) THEN hi ELSE x
    IN IF RatLess(m, lo) THEN lo ELSE m

\* A dict entry that is present only under a condition
Field(cond, f) == IF cond THEN f ELSE <<>>

\* Mutant: max and min swapped.
StepsNumField_Swapped(steps_num) == Min(20, Max(steps_num, 50))

\* data["steps_num"] = max(20, min(int(steps_num), 50))
StepsNumField(steps_num) == Clamp(20, steps_num, 50)

\* The payload of generate_hd_image
HdPayload(a) ==
    [prompt |-> a.prompt[1],
     num_results |-> Clamp(1, a.num_results, 4),
     sync |-> a.sync]
    @@ Field(Truthy(a.negative_prompt), [negative_prompt |-> a.negative_prompt[1]])
    @@ Field(Truthy(a.aspect_ratio), [aspect_ratio |-> a.aspect_ratio[1]])
    @@ Field(a.seed # None, [seed |-> a.seed[1]])
    @@ Field(a.steps_num # None, [steps_num |-> StepsNumField(a.steps_num[1])])
    @@ Field(a.text_guidance_scale # None,
             [text_guidance_scale |-> ClampRat(<<1, 1>>, a.text_guidance_scale[1], <<10, 1>>)])
    @@ Field(Truthy(a.medium), [medium |-> a.medium[1]])
    @@ Field(a.prompt_enhancement, [prompt_enhancement |-> TRUE])
    @@ Field(a.enhance_image, [enhance_image |-> TRUE])
    @@ Field(a.content_moderation, [content_moderation |-> TRUE])
    @@ Field(a.ip_signal, [ip_signal |-> TRUE])

\* The headers of generate_hd_image
HdHeaders(api_key) ==
    [Accept |-> <<"application/json">>, ContentType |-> <<"application/json">>]
    @@ Field(Truthy(api_key),
             [api_token |-> api_key[1], Authorization |-> <<"Bearer ">> \o api_key[1]])

\* generate_hd_image(...), from entry to the retry loop.
generate_hd_image_entry(a) ==
    IF ~Truthy(a.prompt) THEN
        [Idle EXCEPT !.pc = "done",
            !.outcome = Raised("validation",
                PyError("ValueError", <<"Prompt is required for image generation">>), None)]
    ELSE
        [Idle EXCEPT !.pc = "loop",
            !.data = HdPayload(a),
            !.url = <<"https://engine.prod.bria-api.com/v1/text-to-image/hd/">>
                    \o a.model_version,
            !.headers = HdHeaders(a.api_key),
            !.attempt = 0,
            !.backoff = <<1, 1>>,
            !.last_exc = None]

\* One iteration of generate_hd_image's while loop on the answer resp, and
\* the raise after the loop when the condition then fails.
generate_hd_image_iteration(L, a, lib, resp) ==
    LET line == <<"[generate_hd_image] Request to ">> \o L.url
                \o <<" attempt=">> \o IntStr(L.attempt)
                \o <<" api_key=">> \o _mask_key(a.api_key)
        post == Post(L.url, L.headers, L.data, Some(DEFAULT_TIMEOUT))
        r == PostAndDecode(resp, L.url, lib)
        clause == IF r.kind = "raise" THEN FirstMatch(r.exc, ExceptClauses) ELSE "none"
        fatal4xx == clause = "HTTPError" /\ NonRetryable(StatusOf(r.exc))
        retry == (clause = "HTTPError" /\ ~fatal4xx) \/ clause = "RequestException"
        exc1 == KeepLastExc(L.last_exc, r.exc)
        n1 == NextAttempt(L.attempt)
        sleep_time == SleepTime(L.backoff, n1)
        sent == [L EXCEPT !.answers = Append(@, resp), !.wire = Append(@, post),
                          !.stdout = Append(@, line)]
    IN  IF r.kind = "return" THEN
            [sent EXCEPT !.pc = "done", !.outcome = Returned(r.value)]
        ELSE IF fatal4xx THEN
            [sent EXCEPT !.pc = "done",
                !.outcome = Raised("http4xx", PyError("Exception",
                    <<"HD image generation failed (HTTP ">>
                    \o IntStr(StatusOf(r.exc)[1]) \o <<"): ">> \o TextOf(r.exc)),
                    Some(r.exc))]
        ELSE IF clause = "ValueError" THEN
            [sent EXCEPT !.pc = "done",
                !.outcome = Raised("nonjson", PyError("Exception",
                    <<"HD image generation returned non-JSON response: ">> \o r.exc.text),
                    Some(r.exc))]
        ELSE IF ~retry THEN
            [sent EXCEPT !.pc = "done", !.outcome = Raised("uncaught", r.exc, None)]
        ELSE IF n1 <= RETRY_COUNT THEN
            [sent EXCEPT !.last_exc = exc1, !.attempt = n1,
                !.stdout = Append(@,
                    <<"[generate_hd_image] transient error: ">> \o exc1[1].text
                    \o <<". Retrying in ">> \o Fmt1f(sleep_time) \o <<"s...">>),
                !.wire = Append(@, Sleep(sleep_time))]
        ELSE
            [sent EXCEPT !.last_exc = exc1, !.attempt = n1, !.pc = "done",
                !.outcome = Raised("exhausted", PyError("Exception",
                    <<"HD image generation failed after ">> \o IntStr(AttemptsReported)
                    \o <<" attempts: ">> \o exc1[1].text), None)]

\* ------------------------------------------------ lifestyle_shot_by_text
\* Mutant: shot_size sent with manual_padding too.
ShotSizePlacements_Padding ==
    {"automatic", "manual_placement", "manual_padding", "custom_coordinates"}

\* placement_type in ["automatic", "manual_placement", "custom_coordinates"]
ShotSizePlacements == {"automatic", "manual_placement", "custom_coordinates"}

\* The payload of lifestyle_shot_by_text
LifestylePayload(a, image_base64) ==
    [file |-> image_base64,
     scene_description |-> a.scene_description,
     placement_type |-> a.placement_type,
     num_results |-> a.num_results,
     sync |-> a.sync,
     fast |-> a.fast,
     optimize_description |-> a.optimize_description,
     original_quality |-> a.original_quality,
     force_rmbg |-> a.force_rmbg,
     content_moderation |-> a.content_moderation]
    @@ Field(Truthy(a.exclude_elements) /\ ~a.fast,
             [exclude_elements |-> a.exclude_elements[1]])
    @@ Field(a.placement_type \in ShotSizePlacements,
             [shot_size |-> a.shot_size])
    @@ Field(a.placement_type = "manual_placement",
             [manual_placement_selection |-> a.manual_placement_selection])
    @@ Field(a.placement_type = "manual_padding", [padding_values |-> a.padding_values])
    @@ Field(a.placement_type = "custom_coordinates" /\ Truthy(a.foreground_image_size),
             [foreground_image_size |-> a.foreground_image_size[1]])
    @@ Field(a.placement_type = "custom_coordinates" /\ Truthy(a.foreground_image_location),
             [foreground_image_location |-> a.foreground_image_location[1]])
    @@ Field(Truthy(a.sku), [sku |-> a.sku[1]])

\* The headers of lifestyle_shot_by_text
LifestyleHeaders(api_key) ==
    [api_token |-> strip(api_key[1]),
     Accept |-> <<"application/json">>,
     ContentType |-> <<"application/json">>]

\* lifestyle_shot_by_text(...), from entry to the try block.
lifestyle_shot_by_text_entry(a) ==
    LET u == <<"https://engine.prod.bria-api.com/v1/product/lifestyle_shot_by_text">>
    IN  IF a.api_key = None THEN
            \* None.strip()
            [Idle EXCEPT !.pc = "done", !.url = u,
                !.outcome = Raised("uncaught", PyError("AttributeError",
                    <<"'NoneType' object has no attribute 'strip'">>), None)]
        ELSE IF a.image_data = None THEN
            \* base64.b64encode(None)
            [Idle EXCEPT !.pc = "done", !.url = u,
                !.headers = LifestyleHeaders(a.api_key),
                !.outcome = Raised("uncaught", PyError("TypeError",
                    <<"a bytes-like object is required, not 'NoneType'">>), None)]
        ELSE
            [Idle EXCEPT !.pc = "try", !.url = u,
                !.headers = LifestyleHeaders(a.api_key),
                !.data = LifestylePayload(a, decode_utf8(b64encode(a.image_data[1])))]

\* repr() of an Optional[str]
ReprOpt(o) == IF o = None THEN <<"None">> ELSE <<"'">> \o o[1] \o <<"'">>

\* The try block of lifestyle_shot_by_text on the answer resp.
lifestyle_shot_by_text_try(L, a, lib, resp) ==
    LET before == <<
            <<"Sending Request -> lifestyle_shot_by_text">>,
            <<"Headers: {'api_token': '">> \o L.headers.api_token
                \o <<"', 'Accept': 'application/json', 'Content-Type': 'application/json'}">>,
            <<"Payload: {'file': '">> \o L.data.file \o <<"', 'scene_description': ">>
                \o ReprOpt(L.data.scene_description) \o <<", ...}">> >>
        post == Post(L.url, L.headers, L.data, None)
        r == PostAndDecode(resp, L.url, lib)
        statusOk == resp.net = "ok" /\ raise_for_status(resp, L.url) = None
        after == IF statusOk
                 THEN << <<"Status: ">> \o IntStr(resp.status),
                         <<"Response: ">> \o resp.text >>
                 ELSE <<>>
    IN  [L EXCEPT !.answers = Append(@, resp),
            !.wire = Append(@, post),
            !.stdout = @ \o before \o after,
            !.pc = "done",
            !.outcome = IF r.kind = "return" THEN Returned(r.value)
                        ELSE Raised("wrapped", PyError("Exception",
                                 <<"Lifestyle shot generation failed: ">> \o r.exc.text),
                                 Some(r.exc))]

\* ------------------------------------------------------------ the calls
\* The arguments the model varies, the others at the defaults of the
\* signatures.
Prompts == {None, Some(<<>>), Some(<<"a red chair">>)}
StepsInputs == {None} \cup {Some(n) : n \in {-7, 0, 5, 19, 20, 21, 35, 50, 51, 999}}
NumResultsInputs == {-3, 0, 1, 2, 4, 5, 9}
PlacementTypes ==
    {"original", "automatic", "manual_placement", "manual_padding", "custom_coordinates"}
ExcludeElements == {None, Some(<<>>), Some(<<"people">>)}
ForegroundSizes == {None, Some(<<>>), Some(<<400, 300>>)}
ForegroundLocations == {None, Some(<<>>), Some(<<50, 60>>)}
Skus == {None, Some(<<>>), Some(<<"SKU-1">>)}

\* Arguments that pass every check, for the calls that vary the others.
AKey == Some(KeyOfLen(MaxKeyLen))
AnImage == Some(<<137, 80>>)
APrompt == Some(<<"a red chair">>)

EraseArgs(api_key, image_data, image_url, content_moderation) ==
    [api_key |-> api_key, image_data |-> image_data, image_url |-> image_url,
     content_moderation |-> content_moderation]

HdArgs(prompt, api_key, steps_num, num_results) ==
    [prompt |-> prompt, api_key |-> api_key, model_version |-> <<"2.2">>,
     num_results |-> num_results, aspect_ratio |-> Some(<<"1:1">>), sync |-> TRUE,
     seed |-> None, negative_prompt |-> None, steps_num |-> steps_num,
     text_guidance_scale |-> None, medium |-> None, prompt_enhancement |-> FALSE,
     enhance_image |-> FALSE, content_moderation |-> FALSE, ip_signal |-> FALSE]

\* The tunables of lifestyle_shot_by_text at the defaults of its signature.
LifestyleTunables ==
    [placement_type |-> "original", num_results |-> 4, fast |-> TRUE,
     exclude_elements |-> None, foreground_image_size |-> None,
     foreground_image_location |-> None, sku |-> None]

\* The list arguments are left to the defaults, which dflt holds.
LifestyleArgs(api_key, image_data, scene_description, tun, dflt) ==
    [api_key |-> api_key, image_data |-> image_data,
     scene_description |-> scene_description, placement_type |-> tun.placement_type,
     num_results |-> tun.num_results, sync |-> FALSE, fast |-> tun.fast,
     optimize_description |-> TRUE,
     original_quality |-> FALSE, exclude_elements |-> tun.exclude_elements,
     shot_size |-> dflt.shot_size,
     manual_placement_selection |-> dflt.manual_placement_selection,
     padding_values |-> dflt.padding_values,
     foreground_image_size |-> tun.foreground_image_size,
     foreground_image_location |-> tun.foreground_image_location, force_rmbg |-> FALSE,
     content_moderation |-> FALSE, sku |-> tun.sku]

Fns == {"erase_foreground", "generate_hd_image", "lifestyle_shot_by_text"}

\* The function's code from its entry to its first POST
Entry(f, a) ==
    IF f = "erase_foreground" THEN erase_foreground_entry(a)
    ELSE IF f = "generate_hd_image" THEN generate_hd_image_entry(a)
    ELSE lifestyle_shot_by_text_entry(a)

\* The function's code from one POST to the next, or to its end
Step(f, L, a, lib, resp) ==
    IF f = "erase_foreground" THEN erase_foreground_iteration(L, a, lib, resp)
    ELSE IF f = "generate_hd_image" THEN generate_hd_image_iteration(L, a, lib, resp)
    ELSE lifestyle_shot_by_text_try(L, a, lib, resp)

\* The locals of the running call
Locals ==
    [pc |-> pc, url |-> url, headers |-> headers, data |-> data,
     attempt |-> attempt, backoff |-> backoff, last_exc |-> last_exc,
     wire |-> wire, answers |-> answers, stdout |-> stdout, outcome |-> outcome]

Becomes(L) ==
    /\ pc' = L.pc
    /\ url' = L.url
    /\ headers' = L.headers
    /\ data' = L.data
    /\ attempt' = L.attempt
    /\ backoff' = L.backoff
    /\ last_exc' = L.last_exc
    /\ wire' = L.wire
    /\ answers' = L.answers
    /\ stdout' = L.stdout
    /\ outcome' = L.outcome

\* A caller calls f with the arguments a.
Call(f, a) ==
    /\ fn' = f
    /\ args' = a
    /\ Becomes(Entry(f, a))
    /\ UNCHANGED <<jsonErrIsReqExc, defaults, threads>>

erase_foreground(api_key, image_data, image_url, content_moderation) ==
    /\ pc = "idle"
    /\ Call("erase_foreground",
            EraseArgs(api_key, image_data, image_url, content_moderation))

generate_hd_image(prompt, api_key, steps_num, num_results) ==
    /\ pc = "idle"
    /\ Call("generate_hd_image", HdArgs(prompt, api_key, steps_num, num_results))

lifestyle_shot_by_text(api_key, image_data, scene_description, tun) ==
    /\ pc = "idle"
    /\ Call("lifestyle_shot_by_text",
            LifestyleArgs(api_key, image_data, scene_description, tun, defaults))

\* The running call issues its next POST and gets resp back.
erase_foreground_loop(resp) ==
    /\ pc = "loop"
    /\ fn = "erase_foreground"
    /\ attempt <= RETRY_COUNT
    /\ Becomes(erase_foreground_iteration(Locals, args, jsonErrIsReqExc, resp))
    /\ UNCHANGED <<jsonErrIsReqExc, fn, args, defaults, threads>>

generate_hd_image_loop(resp) ==
    /\ pc = "loop"
    /\ fn = "generate_hd_image"
    /\ attempt <= RETRY_COUNT
    /\ Becomes(generate_hd_image_iteration(Locals, args, jsonErrIsReqExc, resp))
    /\ UNCHANGED <<jsonErrIsReqExc, fn, args, defaults, threads>>

lifestyle_shot_by_text_post(resp) ==
    /\ pc = "try"
    /\ fn = "lifestyle_shot_by_text"
    /\ Becomes(lifestyle_shot_by_text_try(Locals, args, jsonErrIsReqExc, resp))
    /\ UNCHANGED <<jsonErrIsReqExc, fn, args, defaults, threads>>

\* The calls made: the required arguments varied with the tunables at their
\* defaults, and the tunables varied with required arguments that pass.
Next ==
    \/ \E k \in Keys, d \in ImageDatas, sd \in Prompts :
           lifestyle_shot_by_text(k, d, sd, LifestyleTunables)
    \/ \E pt \in PlacementTypes, fast \in BOOLEAN, ex \in ExcludeElements,
          fs \in ForegroundSizes, fl \in ForegroundLocations, sku \in Skus :
           lifestyle_shot_by_text(AKey, AnImage, APrompt,
               [LifestyleTunables EXCEPT !.placement_type = pt, !.fast = fast,
                   !.exclude_elements = ex, !.foreground_image_size = fs,
                   !.foreground_image_location = fl, !.sku = sku])
    \/ \E n \in NumResultsInputs :
           lifestyle_shot_by_text(AKey, AnImage, APrompt,
               [LifestyleTunables EXCEPT !.num_results = n])
    \/ \E resp \in Responses : lifestyle_shot_by_text_post(resp)
    \/ \E p \in Prompts, k \in Keys, st \in StepsInputs : generate_hd_image(p, k, st, 1)
    \/ \E n \in NumResultsInputs : generate_hd_image(APrompt, AKey, None, n)
    \/ \E resp \in Responses : generate_hd_image_loop(resp)
    \/ \E k \in Keys, d \in ImageDatas, u \in ImageUrls, cm \in BOOLEAN :
           erase_foreground(k, d, u, cm)
    \/ \E resp \in Responses : erase_foreground_loop(resp)

Spec == Init /\ [][Next]_vars

\* requests.post is given timeout=DEFAULT_TIMEOUT in the retry loops, so each
\* of their POSTs comes back, with a response or an error, and time.sleep
\* returns: a call that is in its loop takes its next iteration.
ThreadKeys == {Some(KeyOfLen(4)), AKey}

\* The calls of the two functions that have a retry loop.
RetryNext ==
    \/ \E k \in ThreadKeys, d \in ImageDatas, u \in ImageUrls :
           erase_foreground(k, d, u, FALSE)
    \/ \E resp \in Responses : erase_foreground_loop(resp)
    \/ \E k \in ThreadKeys, st \in StepsInputs : generate_hd_image(APrompt, k, st, 1)
    \/ \E resp \in Responses : generate_hd_image_loop(resp)

FairSpec ==
    /\ Init
    /\ [][RetryNext]_vars
    /\ WF_vars(\E resp \in Responses : erase_foreground_loop(resp))
    /\ WF_vars(\E resp \in Responses : generate_hd_image_loop(resp))

\* ----------------------------------------------------- concurrent calls
\* Each thread makes one call.  A thread is at "idle" before its call, at
\* "ready" before a POST, at "posting" while requests.post blocks, at
\* "sleeping" while time.sleep blocks, at "done" after the return or raise.
\* The threads take their steps in any order.
callvars == <<pc, fn, args, url, headers, data, attempt, backoff, last_exc, wire,
              answers, stdout, outcome>>

ThreadResponses ==
    {Resp(200, GoodBody), Resp(404, BadBody), Resp(500, BadBody), NetFail("Timeout")}

\* The arguments of a thread's call; the list arguments of
\* lifestyle_shot_by_text are left to the defaults dflt and are sent.
ThreadArgs(f, k, dflt) ==
    IF f = "erase_foreground" THEN EraseArgs(k, AnImage, None, FALSE)
    ELSE IF f = "generate_hd_image" THEN HdArgs(APrompt, k, Some(35), 2)
    ELSE LifestyleArgs(k, AnImage, APrompt,
             [LifestyleTunables EXCEPT !.placement_type = "manual_placement"], dflt)

\* Mutant: the locals kept in one place for all calls, as module globals.
Frame_Shared(ths, t) == ths["t1"].L

\* attempt, backoff, last_exc, headers, data: locals of the call's own frame
Frame(ths, t) == ths[t].L

thread_call(t, f, k) ==
    /\ threads[t].at = "idle"
    /\ LET a == ThreadArgs(f, k, defaults)
           L == Entry(f, a)
       IN  threads' = [threads EXCEPT ![t] =
               [at |-> IF L.pc = "done" THEN "done" ELSE "ready",
                fn |-> f, args |-> a, L |-> L, got |-> <<>>]]
    /\ UNCHANGED <<jsonErrIsReqExc, callvars, defaults>>

thread_post(t) ==
    /\ threads[t].at = "ready"
    /\ threads' = [threads EXCEPT ![t].at = "posting"]
    /\ UNCHANGED <<jsonErrIsReqExc, callvars, defaults>>

thread_answer(t, resp) ==
    /\ threads[t].at = "posting"
    /\ LET th == threads[t]
           L == Step(th.fn, Frame(threads, t), th.args, jsonErrIsReqExc, resp)
       IN  threads' = [threads EXCEPT ![t] =
               [th EXCEPT !.L = L, !.got = Append(@, resp),
                          !.at = IF L.pc = "done" THEN "done" ELSE "sleeping"]]
    /\ UNCHANGED <<jsonErrIsReqExc, callvars, defaults>>

thread_wake(t) ==
    /\ threads[t].at = "sleeping"
    /\ threads' = [threads EXCEPT ![t].at = "ready"]
    /\ UNCHANGED <<jsonErrIsReqExc, callvars, defaults>>

ConcNext ==
    \/ \E t \in Threads, f \in Fns, k \in ThreadKeys : thread_call(t, f, k)
    \/ \E t \in Threads : thread_post(t)
    \/ \E t \in Threads, resp \in ThreadResponses : thread_answer(t, resp)
    \/ \E t \in Threads : thread_wake(t)

ConcSpec == Init /\ [][ConcNext]_vars

\* =============================================================== claims
RetryFns == {"erase_foreground", "generate_hd_image"}

PostsIn(w) == {i \in 1..Len(w) : w[i].op = "POST"}
SleepsIn(w) == {i \in 1..Len(w) : w[i].op = "sleep"}
NumPosts == Cardinality(PostsIn(wire))
NumSleeps == Cardinality(SleepsIn(wire))

\* The classes of answers the specification names.
Is2xx(resp) == resp.net = "ok" /\ resp.status >= 200 /\ resp.status < 300
IsNonJson2xx(resp) == Is2xx(resp) /\ resp.text # GoodBody
IsClient4xx(resp) ==
    resp.net = "ok" /\ resp.status >= 400 /\ resp.status < 500 /\ resp.status # 429
IsTransient(resp) ==
    \/ resp.net # "ok"
    \/ resp.status = 429
    \/ (resp.status >= 500 /\ resp.status < 600)

RaisedAt(site) == outcome # None /\ outcome[1].kind = "raise" /\ outcome[1].site = site

\* ------------------------------------------------------------------ C1
\* C1: with a requests whose JSON decode error is both a ValueError and a
\* RequestException, a call of erase_foreground or generate_hd_image whose
\* POST is answered 2xx with a body that is no JSON has ended right there:
\* one POST, no sleep, the decode error raised.
C1_NonJsonFailsAtOnce ==
    (/\ jsonErrIsReqExc
     /\ fn \in RetryFns
     /\ Len(answers) >= 1
     /\ IsNonJson2xx(answers[1]))
    => (/\ pc = "done"
        /\ NumPosts = 1
        /\ NumSleeps = 0
        /\ RaisedAt("nonjson"))

\* ------------------------------------------------------------------ C2
CredentialMissing == ~Truthy(args.api_key)
ImageMissing ==
    IF fn = "erase_foreground" THEN args.image_data = None /\ args.image_url = None
    ELSE IF fn = "lifestyle_shot_by_text" THEN args.image_data = None
    ELSE FALSE
PromptMissing ==
    IF fn = "generate_hd_image" THEN ~Truthy(args.prompt)
    ELSE IF fn = "lifestyle_shot_by_text" THEN ~Truthy(args.scene_description)
    ELSE FALSE

\* C2: a call of any of the three functions that lacks a required input
\* (credential absent or empty, image source absent, prompt absent or
\* empty) has failed with the input-validation error, and has issued no POST.
C2_MissingInputRejected ==
    (fn \in Fns /\ (CredentialMissing \/ ImageMissing \/ PromptMissing))
    => (/\ pc = "done"
        /\ RaisedAt("validation")
        /\ outcome[1].exc.cls = "ValueError"
        /\ NumPosts = 0)

\* ------------------------------------------------------------------ C3
\* backoffBase * backoffMultiplier^k with the defaults 1.0 and 1.5
ExpectedBackoff(k) == <<3 ^ k, 2 ^ k>>

\* C3: a finished call of erase_foreground or generate_hd_image all of whose
\* attempts ended in a transient failure (429, 5xx, connection error,
\* timeout) made exactly RETRY_COUNT + 1 = 3 POSTs, slept exactly once
\* between consecutive POSTs and nowhere else, for 1.0 * 1.5^k before the
\* POST with attempt number k, each sleep longer than the one before, and
\* raised the exhausted-retries error.
C3_AllTransientExhausts ==
    (/\ fn \in RetryFns
     /\ pc = "done"
     /\ Len(answers) >= 1
     /\ \A i \in 1..Len(answers) : IsTransient(answers[i]))
    => (/\ NumPosts = RETRY_COUNT + 1
        /\ NumPosts = 3
        /\ Len(wire) = 2 * NumPosts - 1
        /\ \A i \in 1..Len(wire) :
              IF i % 2 = 1 THEN wire[i].op = "POST"
              ELSE /\ wire[i].op = "sleep"
                   /\ RatEq(wire[i].secs, ExpectedBackoff(i \div 2))
        /\ \A i, j \in SleepsIn(wire) : i < j => RatLess(wire[i].secs, wire[j].secs)
        /\ RaisedAt("exhausted"))

C3_Witness ==
    /\ fn \in RetryFns
    /\ pc = "done"
    /\ answers = <<Resp(429, BadBody), Resp(429, BadBody), Resp(429, BadBody)>>
    /\ RaisedAt("exhausted")
    /\ NumSleeps = 2

\* ------------------------------------------------------------------ C4
\* C4: in erase_foreground and generate_hd_image a 4xx answer other than 429
\* is the last answer of the call, on whichever attempt it comes: the call
\* has then ended with an error whose text holds the status code and the
\* body text, every answer so far cost one POST, and the last thing on the
\* wire is that POST (no sleep follows it).
C4_Client4xxIsTerminal ==
    (fn \in RetryFns /\ Len(answers) >= 1)
    => (/\ \A i \in 1..(Len(answers) - 1) : ~IsClient4xx(answers[i])
        /\ IsClient4xx(answers[Len(answers)])
           => (/\ pc = "done"
               /\ RaisedAt("http4xx")
               /\ Contains(outcome[1].exc.text, IntStr(answers[Len(answers)].status))
               /\ Contains(outcome[1].exc.text, answers[Len(answers)].text)
               /\ NumPosts = Len(answers)
               /\ NumSleeps = Len(answers) - 1
               /\ wire[Len(wire)].op = "POST"))

C4_Witness ==
    /\ fn \in RetryFns
    /\ answers = <<Resp(500, BadBody), Resp(404, BadBody)>>
    /\ RaisedAt("http4xx")
    /\ NumPosts = 2

\* ------------------------------------------------------------------ C5
\* C5: a call of erase_foreground or generate_hd_image answered 500 goes on
\* to a second POST after one sleep, and answered 200 with a JSON body then,
\* it has returned the decoded body after exactly two POSTs and one sleep,
\* the second POST being the last thing on the wire.
C5_RetryThenSuccess ==
    /\ (fn \in RetryFns /\ answers = <<Resp(500, BadBody)>>)
       => (/\ pc = "loop"
           /\ outcome = None
           /\ attempt = 1
           /\ NumPosts = 1
           /\ NumSleeps = 1)
    /\ (/\ fn \in RetryFns
        /\ Len(answers) >= 2
        /\ answers[1] = Resp(500, BadBody)
        /\ answers[2] = Resp(200, GoodBody))
       => (/\ pc = "done"
           /\ outcome = Returned([result_url |-> "r"])
           /\ Len(answers) = 2
           /\ NumPosts = 2
           /\ NumSleeps = 1
           /\ wire[Len(wire)].op = "POST")

C5_Witness ==
    /\ fn \in RetryFns
    /\ pc = "done"
    /\ answers = <<Resp(500, BadBody), Resp(200, GoodBody)>>
    /\ outcome # None
    /\ outcome[1].kind = "return"

\* ------------------------------------------------------------------ C6
\* Valid arguments for each function.
SampleArgs(f) ==
    IF f = "erase_foreground"
    THEN EraseArgs(AKey, AnImage, None, FALSE)
    ELSE IF f = "generate_hd_image"
    THEN HdArgs(APrompt, AKey, None, 1)
    ELSE LifestyleArgs(AKey, AnImage, APrompt, LifestyleTunables, LifestyleDefaults)

\* The call of f fed the answers of script, one per POST, until it ends or
\* the script does.
RECURSIVE Feed(_, _, _, _, _)
Feed(f, L, a, lib, script) ==
    IF L.pc = "done" \/ script = <<>> THEN L
    ELSE Feed(f, Step(f, L, a, lib, Head(script)), a, lib, Tail(script))

RunOn(f, script) ==
    Feed(f, Entry(f, SampleArgs(f)), SampleArgs(f), jsonErrIsReqExc, script)

\* The kind of a finished call's outcome.  The error lifestyle_shot_by_text
\* wraps is classed by the error it wraps.
OutcomeKind(o) ==
    IF o.kind = "return" THEN "value"
    ELSE IF o.site = "http4xx" THEN "terminal-client"
    ELSE IF o.site = "nonjson" THEN "decode"
    ELSE IF o.site = "exhausted" THEN "exhausted-retries"
    ELSE IF o.site = "validation" THEN "input-validation"
    ELSE IF o.site = "wrapped" /\ o.context[1].cls = "JSONDecodeError" THEN "decode"
    ELSE IF o.site = "wrapped" /\ o.context[1].response # None
            /\ IsClient4xx(o.context[1].response[1]) THEN "terminal-client"
    ELSE "other"

Observed(L) ==
    <<Cardinality(PostsIn(L.wire)), Cardinality(SleepsIn(L.wire)), OutcomeKind(L.outcome[1])>>

\* C6: fed the same answers, on which each of them comes to its end, the
\* three functions issue the same number of POSTs, sleep the same number of
\* times and end with the same kind of outcome.  The answers are those the
\* running call has received.
C6_SameExecutor ==
    (/\ Len(answers) >= 1
     /\ \A f \in Fns : RunOn(f, answers).pc = "done")
    => \A f, g \in Fns : Observed(RunOn(f, answers)) = Observed(RunOn(g, answers))

\* ------------------------------------------------------------------ C7
\* C7: no printed line and no raised error text of a call holds the
\* caller's credential in full.
C7_NoFullCredential ==
    (fn \in Fns /\ Truthy(args.api_key))
    => (/\ \A i \in 1..Len(stdout) : ~Contains(stdout[i], args.api_key[1])
        /\ (outcome # None /\ outcome[1].kind = "raise")
           => ~Contains(outcome[1].exc.text, args.api_key[1]))

\* ------------------------------------------------------------------ C8
\* C8: every POST carries Accept and Content-Type application/json, the
\* api_token header and the Authorization bearer header, both with the
\* caller's credential.
C8_HeadersOnEveryPost ==
    \A i \in PostsIn(wire) :
        LET h == wire[i].headers
        IN  /\ {"Accept", "ContentType", "api_token", "Authorization"} \subseteq DOMAIN h
            /\ h.Accept = <<"application/json">>
            /\ h.ContentType = <<"application/json">>
            /\ args.api_key # None
            /\ h.api_token = args.api_key[1]
            /\ h.Authorization = <<"Bearer ">> \o args.api_key[1]

\* ------------------------------------------------------------------ C9
\* C9: the text of the exhausted-retries error ends with the description
\* of the error the last POST of the call ran into, and the attempt count
\* in it is the number of POSTs the call issued.
C9_ExhaustedReportsLast ==
    (fn \in Fns /\ RaisedAt("exhausted"))
    => LET last == PostAndDecode(answers[Len(answers)], url, jsonErrIsReqExc)
           t == outcome[1].exc.text
       IN  /\ last.kind = "raise"
           /\ t = <<t[1]>> \o IntStr(NumPosts) \o <<" attempts: ">> \o last.exc.text

C9_Witness ==
    /\ RaisedAt("exhausted")
    /\ answers = <<Resp(500, BadBody), Resp(429, BadBody), NetFail("Timeout")>>
    /\ outcome[1].exc.text[Len(outcome[1].exc.text)] = "Timeout"

\* ----------------------------------------------------------------- C10
\* The value clamped to [20, 50]
ClampedSteps(v) == IF v < 20 THEN 20 ELSE IF v > 50 THEN 50 ELSE v

\* C10: when generate_hd_image is given an integer steps_num, the body it
\* has built, and the body of every POST it issues, has steps_num equal to
\* the value clamped to [20, 50]; 5 gives 20 and 999 gives 50.
C10_StepsClamped ==
    (fn = "generate_hd_image" /\ args.steps_num # None)
    => (/\ pc = "loop"
           => /\ "steps_num" \in DOMAIN data
              /\ data.steps_num = ClampedSteps(args.steps_num[1])
              /\ args.steps_num[1] = 5 => data.steps_num = 20
              /\ args.steps_num[1] = 999 => data.steps_num = 50
        /\ \A i \in PostsIn(wire) :
              /\ "steps_num" \in DOMAIN wire[i].json
              /\ wire[i].json.steps_num = ClampedSteps(args.steps_num[1]))

C10_Witness ==
    /\ fn = "generate_hd_image"
    /\ args.steps_num = Some(999)
    /\ NumPosts >= 1
    /\ wire[1].json.steps_num = 50

\* ----------------------------------------------------------------- C11
\* C11: in the body of every POST of generate_hd_image and of
\* lifestyle_shot_by_text that has a num_results field, its value lies in
\* [1, 4], whatever integer the caller asked for.
C11_NumResultsClamped ==
    (fn \in {"generate_hd_image", "lifestyle_shot_by_text"})
    => \A i \in PostsIn(wire) :
          "num_results" \in DOMAIN wire[i].json
          => (wire[i].json.num_results >= 1 /\ wire[i].json.num_results <= 4)

\* ----------------------------------------------------------------- C12
\* An optional argument counts as supplied when it is neither None nor empty.
Supplied(o) == o # None /\ o[1] # <<>>

\* C12: the body lifestyle_shot_by_text has built, and sends, holds
\* shot_size iff placement_type is automatic, manual_placement or
\* custom_coordinates; manual_placement_selection iff it is manual_placement;
\* padding_values iff it is manual_padding; foreground_image_size and
\* foreground_image_location iff it is custom_coordinates and the value was
\* supplied; exclude_elements iff a list was supplied and fast is off; sku
\* iff a SKU was supplied -- each with the value the caller gave.
C12_ConditionalFields ==
    (fn = "lifestyle_shot_by_text" /\ pc \in {"try", "done"} /\ data # <<>>)
    => LET has(f) == f \in DOMAIN data
           pt == args.placement_type
       IN  /\ has("shot_size")
               <=> pt \in {"automatic", "manual_placement", "custom_coordinates"}
           /\ has("shot_size") => data.shot_size = args.shot_size
           /\ has("manual_placement_selection") <=> pt = "manual_placement"
           /\ has("manual_placement_selection")
               => data.manual_placement_selection = args.manual_placement_selection
           /\ has("padding_values") <=> pt = "manual_padding"
           /\ has("padding_values") => data.padding_values = args.padding_values
           /\ has("foreground_image_size")
               <=> (pt = "custom_coordinates" /\ Supplied(args.foreground_image_size))
           /\ has("foreground_image_size")
               => data.foreground_image_size = args.foreground_image_size[1]
           /\ has("foreground_image_location")
               <=> (pt = "custom_coordinates" /\ Supplied(args.foreground_image_location))
           /\ has("foreground_image_location")
               => data.foreground_image_location = args.foreground_image_location[1]
           /\ has("exclude_elements")
               <=> (Supplied(args.exclude_elements) /\ ~args.fast)
           /\ has("exclude_elements") => data.exclude_elements = args.exclude_elements[1]
           /\ has("sku") <=> Supplied(args.sku)
           /\ has("sku") => data.sku = args.sku[1]
           /\ \A i \in PostsIn(wire) : wire[i].json = data

C12_Witness ==
    /\ fn = "lifestyle_shot_by_text"
    /\ pc = "done"
    /\ NumPosts = 1
    /\ args.placement_type = "custom_coordinates"
    /\ ~args.fast
    /\ {"shot_size", "foreground_image_size", "foreground_image_location",
        "exclude_elements", "sku"} \subseteq DOMAIN wire[1].json
    /\ "padding_values" \notin DOMAIN wire[1].json
    /\ "manual_placement_selection" \notin DOMAIN wire[1].json

\* ----------------------------------------------------------------- C13
\* The call of a thread run on its own, fed the answers the thread's POSTs
\* got.
Alone(th) == Feed(th.fn, Entry(th.fn, th.args), th.args, jsonErrIsReqExc, th.got)

\* C13: with the calls of two threads interleaved, the locals of each call
\* (request built, attempt counter, backoff, last error, POSTs and sleeps
\* made, lines printed, outcome) are at every moment those of the same call
\* run alone on the answers it got, each answer cost it one POST, and the
\* default lists of lifestyle_shot_by_text are as the def statement made
\* them.
C13_CallsIndependent ==
    /\ defaults = LifestyleDefaults
    /\ \A t \in Threads :
          threads[t].at # "idle"
          => /\ threads[t].L = Alone(threads[t])
             /\ Cardinality(PostsIn(threads[t].L.wire)) = Len(threads[t].got)
             /\ threads[t].at = "done" <=> threads[t].L.outcome # None

C13_Witness ==
    /\ threads["t1"].fn = "erase_foreground"
    /\ threads["t2"].fn = "erase_foreground"
    /\ threads["t1"].args # threads["t2"].args
    /\ threads["t1"].at = "sleeping"
    /\ threads["t1"].L.attempt = 1
    /\ threads["t2"].at = "posting"
    /\ threads["t2"].L.attempt = 2

\* ----------------------------------------------------------------- C14
\* C14: every call of erase_foreground and generate_hd_image that has
\* entered its retry loop ends, by a return or a raise, whatever the answers;
\* its attempt counter is always between 0 and RETRY_COUNT + 1, while it
\* loops the counter is the number of POSTs made so far, a POST is issued
\* only from a state whose counter is at most RETRY_COUNT, and the call never
\* issues more than RETRY_COUNT + 1 = 3 POSTs.
C14_BoundedAndTerminates ==
    /\ [](fn \in RetryFns
          => /\ attempt >= 0
             /\ attempt <= RETRY_COUNT + 1
             /\ NumPosts <= RETRY_COUNT + 1
             /\ NumPosts <= 3
             /\ pc = "loop" => NumPosts = attempt
             /\ pc = "done" <=> outcome # None)
    /\ [][(fn \in RetryFns /\ Len(wire') > Len(wire)) => attempt <= RETRY_COUNT]_vars
    /\ ((fn \in RetryFns /\ pc = "loop") ~> (pc = "done" /\ outcome # None))

C14_Witness ==
    /\ fn \in RetryFns
    /\ pc = "done"
    /\ attempt = RETRY_COUNT + 1
    /\ NumPosts = 3
    /\ answers = <<NetFail("Timeout"), Resp(500, BadBody), NetFail("ConnectionError")>>
    /\ outcome # None

\* ----------------------------------------------------------------- C15
\* C15: a call that has returned a value got, on its last POST, a 2xx
\* status with a body that is JSON; after an answer with any other status,
\* or a transport failure, as its last, no call has returned.
C15_ReturnOnly2xxJson ==
    (fn \in Fns /\ outcome # None /\ outcome[1].kind = "return")
    => /\ Len(answers) >= 1
       /\ Is2xx(answers[Len(answers)])
       /\ json_loads(answers[Len(answers)].text) # None

\* ----------------------------------------------------------------- C16
\* C16: on the wire of a call of erase_foreground or generate_hd_image POSTs
\* and sleeps alternate, starting with a POST: nothing sleeps before the
\* first POST, exactly one sleep lies between two consecutive POSTs, the
\* sleep before the POST with attempt number k lasts 1.0 * 1.5^k (3/2, then
\* 9/4), a call that has ended has a POST as the last thing on its wire, and
\* a call whose wire ends with a sleep is in its loop with an attempt to go.
C16_SleepOnlyBetweenPosts ==
    (fn \in RetryFns)
    => /\ \A i \in 1..Len(wire) :
             IF i % 2 = 1 THEN wire[i].op = "POST"
             ELSE /\ wire[i].op = "sleep"
                  /\ RatEq(wire[i].secs, ExpectedBackoff(i \div 2))
                  /\ RatEq(wire[i].secs, IF i = 2 THEN <<3, 2>> ELSE <<9, 4>>)
       /\ NumSleeps <= RETRY_COUNT
       /\ (pc = "done" /\ wire # <<>>) => wire[Len(wire)].op = "POST"
       /\ (pc = "loop" /\ wire # <<>>)
          => /\ wire[Len(wire)].op = "sleep"
             /\ attempt <= RETRY_COUNT
             /\ NumSleeps = attempt

C16_Witness ==
    /\ fn \in RetryFns
    /\ pc = "done"
    /\ answers = <<NetFail("ConnectionError"), Resp(500, BadBody), Resp(404, BadBody)>>
    /\ Len(wire) = 5
    /\ wire[2] = Sleep(<<3, 2>>)
    /\ wire[4] = Sleep(<<9, 4>>)
    /\ wire[5].op = "POST"

\* ----------------------------------------------------------------- C17
\* C17: every body erase_foreground sends holds content_moderation, as the
\* caller gave it, and exactly one of image_url and file: image_url alone,
\* with the caller's URL, when a URL was supplied (image bytes supplied or
\* not), otherwise file with the base64 text of the image bytes, which are
\* then present and not empty; the bytes 0x89 0x50 give "iVA=", and
\* 0x89 0x50 0x4E 0x47 give "iVBORw==".
C17_OneImageSource ==
    (fn = "erase_foreground")
    => \A i \in PostsIn(wire) :
          LET body == wire[i].json
          IN  /\ "content_moderation" \in DOMAIN body
              /\ body.content_moderation = args.content_moderation
              /\ ("image_url" \in DOMAIN body) # ("file" \in DOMAIN body)
              /\ DOMAIN body \subseteq {"content_moderation", "image_url", "file"}
              /\ Supplied(args.image_url)
                 => ("image_url" \in DOMAIN body /\ body.image_url = args.image_url[1])
              /\ ~Supplied(args.image_url)
                 => /\ "file" \in DOMAIN body
                    /\ Supplied(args.image_data)
                    /\ body.file = decode_utf8(b64encode(args.image_data[1]))
                    /\ Len(body.file) = 4 * ((Len(args.image_data[1]) + 2) \div 3)
                    /\ args.image_data[1] = <<137, 80>> => body.file = <<"i", "V", "A", "=">>
                    /\ args.image_data[1] = <<137, 80, 78, 71>>
                       => body.file = <<"i", "V", "B", "O", "R", "w", "=", "=">>

C17_Witness ==
    /\ fn = "erase_foreground"
    /\ NumPosts >= 1
    /\ Supplied(args.image_data)
    /\ Supplied(args.image_url)
    /\ DOMAIN wire[1].json = {"content_moderation", "image_url"}

\* ----------------------------------------------------------------- C18
\* C18: every POST of the three functions is issued with the timeout
\* DEFAULT_TIMEOUT = 15.
C18_EveryPostHasTimeout ==
    \A i \in PostsIn(wire) :
        /\ wire[i].timeout # None
        /\ wire[i].timeout[1] = DEFAULT_TIMEOUT
        /\ wire[i].timeout[1] = 15

====
